---- MODULE Spec2Model ----
(***************************************************************************)
(* GhostFat: a synthetic FAT16 block device.  read_block materialises the  *)
(* boot sector, the FAT copies, the root directory and the data clusters   *)
(* of a fixed list of in-memory files; write_block routes a sector write   *)
(* to the backing bytes of a read-write file.                              *)
(*                                                                         *)
(* A 512-byte block is a function 0..511 -> 0..255.  A panic of the Rust   *)
(* code (slice index out of range) is the flag ok = FALSE of the buffer    *)
(* record that the operators thread through the handler; the handler stops *)
(* at the first panic.                                                     *)
(***************************************************************************)
EXTENDS Integers, Sequences, FiniteSets, TLC

VARIABLES config, fat_files, op, lba, wpat, block, ret, written

vars == <<config, fat_files, op, lba, wpat, block, ret, written>>

(* ---------------------------------------------------------------------- *)
(* Bounds of the model                                                     *)
(* ---------------------------------------------------------------------- *)
\* largest number of registered files in Spec
MaxFiles == 2
\* largest number of registered files in SpecMany
MaxManyFiles == 16

\* lengths (bytes) a registered file may have in Spec
Lens == {0, 515}
\* the buffers a write_block call may carry to an lba (see WBlock)
Patterns == {1}
\* (sectors_per_fat, root_dir_entries) a Config may have
Geometries == {<<3, 32>>}

(* ---------------------------------------------------------------------- *)
(* Program constants                                                       *)
(* ---------------------------------------------------------------------- *)
BLOCK_BYTES == 512
UF2_SIZE == 131072
UF2_SECTORS == UF2_SIZE \div 512
ASCII_SPACE == 32

Min(a, b) == IF a < b THEN a ELSE b

BlockIdx == 0 .. (BLOCK_BYTES - 1)

ZeroBlock == [k \in BlockIdx |-> 0]

(* ---------------------------------------------------------------------- *)
(* Config: geometry and derived region boundaries                          *)
(* ---------------------------------------------------------------------- *)
start_fat0(cfg) == cfg.reserved_sectors

sectors_per_fat(cfg) == cfg.sectors_per_fat

start_fat1(cfg) == start_fat0(cfg) + cfg.sectors_per_fat

start_rootdir(cfg) == start_fat0(cfg) + cfg.fat_copies * cfg.sectors_per_fat

root_dir_sectors(cfg) == (cfg.root_dir_entries * 32 + 511) \div 512

start_clusters(cfg) == start_rootdir(cfg) + root_dir_sectors(cfg)

max_lba(cfg) == cfg.num_blocks - 1

(* ---------------------------------------------------------------------- *)
(* File: name, attributes, backing bytes and mutability                    *)
(* ---------------------------------------------------------------------- *)
FileLen(f) == Len(f.data)

\* Option<&mut [u8]>: Some for a read-write file, None for a read-only one
data_mut_is_some(f) == f.rw

ToUpper(c) == IF c >= 97 /\ c <= 122 THEN c - 32 ELSE c

\* position of the last '.' in an ASCII name, 0 when there is none
LastDot(name) ==
  LET dots == {p \in 1..Len(name) : name[p] = 46}
  IN IF dots = {} THEN 0 ELSE CHOOSE p \in dots : \A q \in dots : q <= p

\* 8.3 short name: stem left-justified in 8 bytes, extension in 3, upper case
name_fat16_short(name) ==
  LET d == LastDot(name)
      stem == IF d = 0 THEN name ELSE SubSeq(name, 1, d - 1)
      ext == IF d = 0 THEN <<>> ELSE SubSeq(name, d + 1, Len(name))
  IN [k \in 0..10 |->
        IF k < 8
          THEN (IF k < Len(stem) THEN ToUpper(stem[k + 1]) ELSE ASCII_SPACE)
          ELSE (IF k - 8 < Len(ext) THEN ToUpper(ext[k - 8 + 1]) ELSE ASCII_SPACE)]

\* Determine number of blocks required for each file
block_count(f) ==
  LET q == FileLen(f) \div BLOCK_BYTES
  IN IF FileLen(f) % BLOCK_BYTES # 0 THEN q + 1 ELSE q

\* f.data().chunks(512).nth(offset): the bytes of chunk `offset`, <<>> for None
chunk_nth(data, offset) ==
  IF offset * 512 < Len(data)
    THEN SubSeq(data, offset * 512 + 1, Min(Len(data), offset * 512 + 512))
    ELSE <<>>

(* ---------------------------------------------------------------------- *)
(* Packed records                                                          *)
(* ---------------------------------------------------------------------- *)
LeByte(v, n) == (v \div (256 ^ n)) % 256

\* DirectoryEntry::pack, 32 bytes
DirectoryEntryPack(dir) ==
  [k \in 0..31 |->
     IF k < 11 THEN dir.name[k]
     ELSE IF k = 11 THEN dir.attrs
     ELSE IF k < 22 THEN 0
     ELSE IF k < 24 THEN LeByte(dir.time, k - 22)
     ELSE IF k < 26 THEN LeByte(dir.date, k - 24)
     ELSE IF k < 28 THEN LeByte(dir.start_cluster, k - 26)
     ELSE LeByte(dir.size, k - 28)]

DirectoryEntryDefault ==
  [name |-> [k \in 0..10 |-> 0], attrs |-> 0, time |-> 0, date |-> 0,
   start_cluster |-> 0, size |-> 0]

FatBootBlockBYTES == 62

\* FatBootBlock::new(&config) packed: the BPB/EBPB image
FatBootBlockPack(cfg) ==
  LET total == cfg.num_blocks
      t16 == IF total <= 65535 THEN total ELSE 0
      t32 == IF total <= 65535 THEN 0 ELSE total
      jump == <<235, 60, 144>>
      fstype == <<70, 65, 84, 49, 54, 32, 32, 32>>
  IN [k \in 0..(FatBootBlockBYTES - 1) |->
     IF k < 3 THEN jump[k + 1]
     ELSE IF k < 11 THEN cfg.oem_name[k - 3]
     ELSE IF k < 13 THEN LeByte(512, k - 11)
     ELSE IF k = 13 THEN 1
     ELSE IF k < 16 THEN LeByte(cfg.reserved_sectors, k - 14)
     ELSE IF k = 16 THEN cfg.fat_copies
     ELSE IF k < 19 THEN LeByte(cfg.root_dir_entries, k - 17)
     ELSE IF k < 21 THEN LeByte(t16, k - 19)
     ELSE IF k = 21 THEN 248
     ELSE IF k < 24 THEN LeByte(cfg.sectors_per_fat, k - 22)
     ELSE IF k < 26 THEN LeByte(1, k - 24)
     ELSE IF k < 28 THEN LeByte(1, k - 26)
     ELSE IF k < 32 THEN 0
     ELSE IF k < 36 THEN LeByte(t32, k - 32)
     ELSE IF k = 36 THEN 128
     ELSE IF k = 37 THEN 0
     ELSE IF k = 38 THEN 41
     ELSE IF k < 43 THEN LeByte(cfg.serial, k - 39)
     ELSE IF k < 54 THEN cfg.volume_label[k - 43]
     ELSE fstype[k - 54 + 1]]

(* ---------------------------------------------------------------------- *)
(* Buffer records: [ok, buf]; an out-of-range index clears ok (a panic)    *)
(* ---------------------------------------------------------------------- *)
\* block[i] = v
Put(s, i, v) ==
  IF ~s.ok \/ i >= BLOCK_BYTES
    THEN [s EXCEPT !.ok = FALSE]
    ELSE [s EXCEPT !.buf[i] = v]

\* block[start..start+len].copy_from_slice(bytes), bytes indexed from 0
PutSlice(s, start, len, bytes) ==
  IF ~s.ok \/ start + len > BLOCK_BYTES
    THEN [s EXCEPT !.ok = FALSE]
    ELSE [s EXCEPT !.buf =
            [k \in BlockIdx |->
               IF k >= start /\ k < start + len THEN bytes[k - start] ELSE s.buf[k]]]

(* ---------------------------------------------------------------------- *)
(* read_block: FAT region                                                  *)
(* ---------------------------------------------------------------------- *)
\* fat_section_index without the fold of FAT1 onto FAT0
fat_section_index_raw(cfg, l) == l - start_fat0(cfg)

\* section_index of a FAT lba; FAT1 is folded onto FAT0
fat_section_index(cfg, l) ==
  LET section_index == l - start_fat0(cfg)
  IN IF section_index >= sectors_per_fat(cfg)
       THEN section_index - sectors_per_fat(cfg)
       ELSE section_index

\* Write block allocations (2 byte): the loop `for i in 0..block_count`
RECURSIVE fat_file_allocations(_, _, _, _)
fat_file_allocations(s, index, bc, i) ==
  IF i >= bc THEN s
  ELSE LET s1 ==
             IF i = bc - 1
               THEN Put(Put(s, index + i, 255), index + i + 1, 255)
               ELSE Put(Put(s, index + i, ((index + i + 2) \div 256) % 256),
                        index + i + 1, (index + i + 3) % 256)
       IN IF ~s1.ok THEN s1 ELSE fat_file_allocations(s1, index, bc, i + 1)

\* Set allocations for static files: the loop over fat_files; yields the
\* buffer and the byte index after the last file
RECURSIVE fat_static_files(_, _, _, _)
fat_static_files(s, index, files, n) ==
  IF n > Len(files) THEN [s |-> s, index |-> index]
  ELSE LET s1 == fat_file_allocations(s, index, block_count(files[n]), 0)
       IN IF ~s1.ok THEN [s |-> s1, index |-> index]
          ELSE fat_static_files(s1, index + block_count(files[n]) * 2, files, n + 1)

\* Write trailer: four 0xFF bytes at index
fat_trailer(s, index) ==
  Put(Put(Put(Put(s, index, 255), index + 1, 255), index + 2, 255), index + 3, 255)

\* Set remaining sectors as occupied: block[index..] filled with 0xFF
fat_fill(s, index) ==
  IF ~s.ok \/ index > BLOCK_BYTES
    THEN [s EXCEPT !.ok = FALSE]
    ELSE [s EXCEPT !.buf = [k \in BlockIdx |-> IF k >= index THEN 255 ELSE s.buf[k]]]

uf2_first_sector(files) == Len(files) + 1

\* uf2_last_sector one past the window
uf2_last_sector_excl(files) == uf2_first_sector(files) + UF2_SECTORS

uf2_last_sector(files) == uf2_first_sector(files) + UF2_SECTORS - 1

\* the UF2 chain written over entries v = section_index * 256 + i
fat_uf2_overlay(s, files, section_index) ==
  IF ~s.ok THEN s
  ELSE [s EXCEPT !.buf =
          [k \in BlockIdx |->
             LET i == k \div 2
                 v == section_index * 256 + i
             IN IF v >= uf2_first_sector(files) /\ v < uf2_last_sector(files)
                  THEN LeByte(v + 1, k % 2)
                  ELSE IF v = uf2_last_sector(files) THEN 255 ELSE s.buf[k]]]

read_fat(cfg, files, l) ==
  LET section_index == fat_section_index(cfg, l)
      s0 == [ok |-> TRUE, buf |-> ZeroBlock]
      st == IF section_index = 0
              THEN LET r == fat_static_files(Put(s0, 0, 240), 1, files, 1)
                   IN [s |-> fat_trailer(r.s, r.index), index |-> r.index + 4]
              ELSE [s |-> s0, index |-> 1]
  IN fat_uf2_overlay(fat_fill(st.s, st.index), files, section_index)

(* ---------------------------------------------------------------------- *)
(* read_block: root directory region                                       *)
(* ---------------------------------------------------------------------- *)
\* dir_file_entries with one cluster counted per file
RECURSIVE dir_file_entries_one(_, _, _, _)
dir_file_entries_one(s, files, n, cluster_index) ==
  IF n > Len(files) THEN s
  ELSE LET info == files[n]
           dir == [name |-> name_fat16_short(info.name),
                   attrs |-> info.attrs,
                   time |-> 0, date |-> 0,
                   start_cluster |-> cluster_index % 65536,
                   size |-> FileLen(info)]
           s1 == PutSlice(s, n * 32, 32, DirectoryEntryPack(dir))
       IN IF ~s1.ok THEN s1
          ELSE dir_file_entries_one(s1, files, n + 1, cluster_index + 1)

\* Generate directory entries for registered files: file n (from 1) goes to
\* slot n, cluster_index runs from 2
RECURSIVE dir_file_entries(_, _, _, _)
dir_file_entries(s, files, n, cluster_index) ==
  IF n > Len(files) THEN s
  ELSE LET info == files[n]
           dir == [name |-> name_fat16_short(info.name),
                   attrs |-> info.attrs,
                   time |-> 0, date |-> 0,
                   start_cluster |-> cluster_index % 65536,
                   \* `as u32`: the lengths of the model are far below 2^32
                   size |-> FileLen(info)]
           start == n * 32
           s1 == PutSlice(s, start, 32, DirectoryEntryPack(dir))
       IN IF ~s1.ok THEN s1
          ELSE dir_file_entries(s1, files, n + 1, cluster_index + block_count(info))

read_rootdir(cfg, files, l) ==
  LET section_index == l - start_rootdir(cfg)
      s0 == [ok |-> TRUE, buf |-> ZeroBlock]
      label == [DirectoryEntryDefault EXCEPT !.name = cfg.volume_label, !.attrs = 40]
  IN IF section_index = 0
       THEN dir_file_entries(PutSlice(s0, 0, 32, DirectoryEntryPack(label)), files, 1, 2)
       ELSE s0

(* ---------------------------------------------------------------------- *)
(* read_block: data region                                                 *)
(* ---------------------------------------------------------------------- *)
\* read_clusters with the offset taken from the start of the data region
RECURSIVE read_clusters_abs(_, _, _, _)
read_clusters_abs(files, n, section_index, block_index) ==
  IF n > Len(files) THEN [ok |-> TRUE, buf |-> ZeroBlock]
  ELSE IF section_index < block_count(files[n]) + block_index
    THEN LET chunk == chunk_nth(files[n].data, section_index)
         IN [ok |-> TRUE,
             buf |-> [k \in BlockIdx |-> IF k < Len(chunk) THEN chunk[k + 1] ELSE 0]]
    ELSE read_clusters_abs(files, n + 1, section_index,
                           block_index + block_count(files[n]))

\* Iterate through files to find matching block
RECURSIVE read_clusters(_, _, _, _)
read_clusters(files, n, section_index, block_index) ==
  IF n > Len(files) THEN [ok |-> TRUE, buf |-> ZeroBlock]
  ELSE IF section_index < block_count(files[n]) + block_index
    THEN LET offset == section_index - block_index
             chunk == chunk_nth(files[n].data, offset)
         IN [ok |-> TRUE,
             buf |-> [k \in BlockIdx |-> IF k < Len(chunk) THEN chunk[k + 1] ELSE 0]]
    ELSE read_clusters(files, n + 1, section_index, block_index + block_count(files[n]))

read_boot(cfg) ==
  Put(Put(PutSlice([ok |-> TRUE, buf |-> ZeroBlock], 0, FatBootBlockBYTES,
                   FatBootBlockPack(cfg)), 510, 85), 511, 170)

\* read_block(lba, block): [ok, buf]; ok = FALSE when the call panics
read_block(cfg, files, l) ==
  IF l = 0 THEN read_boot(cfg)
  ELSE IF l < start_rootdir(cfg) THEN read_fat(cfg, files, l)
  ELSE IF l < start_clusters(cfg) THEN read_rootdir(cfg, files, l)
  ELSE read_clusters(files, 1, l - start_clusters(cfg), 0)

(* ---------------------------------------------------------------------- *)
(* write_block                                                             *)
(* ---------------------------------------------------------------------- *)
\* write_chunk that does not ask whether the file is read-write
write_chunk_any(f, offset, blk) ==
  LET chunk == chunk_nth(f.data, offset)
      max_len == Min(BLOCK_BYTES, Len(chunk))
  IN [f EXCEPT !.data =
        [j \in 1..Len(f.data) |->
           IF j > offset * 512 /\ j <= offset * 512 + max_len
             THEN blk[j - offset * 512 - 1]
             ELSE f.data[j]]]

\* write_chunk that always copies into the first chunk of the file
write_chunk_first(f, offset, blk) ==
  LET chunk == chunk_nth(f.data, 0)
      max_len == Min(BLOCK_BYTES, Len(chunk))
  IN IF data_mut_is_some(f) /\ Len(chunk) > 0
       THEN [f EXCEPT !.data =
               [j \in 1..Len(f.data) |->
                  IF j <= max_len THEN blk[j - 1] ELSE f.data[j]]]
       ELSE f

\* write_chunk that copies only into a whole 512-byte chunk
write_chunk_whole(f, offset, blk) ==
  LET chunk == chunk_nth(f.data, offset)
  IN IF data_mut_is_some(f) /\ Len(chunk) = BLOCK_BYTES
       THEN [f EXCEPT !.data =
               [j \in 1..Len(f.data) |->
                  IF j > offset * 512 /\ j <= offset * 512 + BLOCK_BYTES
                    THEN blk[j - offset * 512 - 1]
                    ELSE f.data[j]]]
       ELSE f

\* the chunk write of one file: data_mut() then chunks_mut(512).nth(offset),
\* copy of min(block.len(), chunk.len()) bytes; a read-only file is left alone
write_chunk(f, offset, blk) ==
  LET chunk == chunk_nth(f.data, offset)
      max_len == Min(BLOCK_BYTES, Len(chunk))
  IN IF data_mut_is_some(f) /\ Len(chunk) > 0
       THEN [f EXCEPT !.data =
               [j \in 1..Len(f.data) |->
                  IF j > offset * 512 /\ j <= offset * 512 + max_len
                    THEN blk[j - offset * 512 - 1]
                    ELSE f.data[j]]]
       ELSE f

\* Iterate through files to find matching block; yields the file list after
RECURSIVE write_clusters(_, _, _, _, _)
write_clusters(files, n, section_index, block_index, blk) ==
  IF n > Len(files) THEN files
  ELSE IF section_index < block_count(files[n]) + block_index
    THEN [files EXCEPT ![n] = write_chunk(files[n], section_index - block_index, blk)]
    ELSE write_clusters(files, n + 1, section_index,
                        block_index + block_count(files[n]), blk)

\* write_block(lba, block): the file list after the call
write_block(cfg, files, l, blk) ==
  IF l = 0 THEN files
  ELSE IF l < start_rootdir(cfg) THEN files
  ELSE IF l < start_clusters(cfg) THEN files
  ELSE write_clusters(files, 1, l - start_clusters(cfg), 0, blk)

(* ---------------------------------------------------------------------- *)
(* Inputs                                                                  *)
(* ---------------------------------------------------------------------- *)
\* a Config with reserved_sectors = 1, two FAT copies, 8000 blocks
MkConfig(spf, rde) ==
  [num_blocks |-> 8000, reserved_sectors |-> 1, fat_copies |-> 2,
   sectors_per_fat |-> spf, root_dir_entries |-> rde,
   volume_label |-> [k \in 0..10 |-> IF k < 5 THEN 71 + k ELSE ASCII_SPACE],
   oem_name |-> [k \in 0..7 |-> 65 + k],
   serial |-> 305419896]

Configs == {MkConfig(g[1], g[2]) : g \in Geometries}

\* the ASCII name "Test<nn>.txt" of file n
FileName(n) == <<84, 101, 115, 116, 48 + (n \div 10), 48 + (n % 10), 46, 116, 120, 116>>

\* the bytes a file of the given length holds at construction, never 0
InitData(n, len) == [j \in 1..len |-> ((j * 7 + n * 31) % 255) + 1]

MkFile(n, len, rw) ==
  [name |-> FileName(n), attrs |-> IF rw THEN 0 ELSE 1,
   data |-> InitData(n, len), rw |-> rw]

\* length and mutability of a registered file; an empty file has no byte to
\* write and is registered read-only
FileKinds == {k \in [len : Lens, rw : BOOLEAN] : k.len > 0 \/ ~k.rw}

\* the file lists of n files
FileLists(n) ==
  {[i \in 1..n |-> MkFile(i, q[i].len, q[i].rw)] : q \in [1..n -> FileKinds]}

\* the buffer a write_block call carries: pattern p at lba l, never 0
WBlock(p, l) == [k \in BlockIdx |-> ((k * (2 * p + 1) + l * 37 + p * 101) % 255) + 1]

RECURSIVE TotalBlocks(_, _)
TotalBlocks(files, n) ==
  IF n > Len(files) THEN 0 ELSE block_count(files[n]) + TotalBlocks(files, n + 1)

\* the lbas the host addresses: every sector up to the first one past the
\* files' spans, and the last sector of the volume
LbaInputs(cfg, files) ==
  (0 .. (start_clusters(cfg) + TotalBlocks(files, 1))) \cup {max_lba(cfg)}

(* ---------------------------------------------------------------------- *)
(* The layout as the specification words it (used by the properties)       *)
(* ---------------------------------------------------------------------- *)
Blocks(f) == (Len(f.data) + 511) \div 512

\* sum of the block counts of the files before file i (files from 1)
RECURSIVE BlocksBefore(_, _)
BlocksBefore(files, i) ==
  IF i <= 1 THEN 0 ELSE BlocksBefore(files, i - 1) + Blocks(files[i - 1])

\* data sector s (from 0) lies in the span of file i
InSpan(files, i, s) ==
  /\ s >= BlocksBefore(files, i)
  /\ s < BlocksBefore(files, i) + Blocks(files[i])

Owned(files, s) == \E i \in 1..Len(files) : InSpan(files, i, s)

Owner(files, s) == CHOOSE i \in 1..Len(files) : InSpan(files, i, s)

(* ---------------------------------------------------------------------- *)
(* State machine                                                           *)
(* ---------------------------------------------------------------------- *)
InitWith(files) ==
  /\ fat_files = files
  /\ op = "new"
  /\ lba = 0
  /\ wpat = 0
  /\ block = ZeroBlock
  /\ ret = "Ok"
  /\ written = [s \in 1..TotalBlocks(files, 1) |-> 0]

Init ==
  /\ config \in Configs
  /\ \E n \in 0..MaxFiles : \E files \in FileLists(n) : InitWith(files)

\* the host reads sector l
ReadBlock(l) ==
  /\ ret = "Ok"
  /\ LET r == read_block(config, fat_files, l)
     IN /\ block' = r.buf
        /\ ret' = IF r.ok THEN "Ok" ELSE "Panic"
  /\ op' = "read"
  /\ lba' = l
  /\ wpat' = 0
  /\ UNCHANGED <<config, fat_files, written>>

\* the host writes buffer WBlock(p, l) to sector l; `written` remembers the
\* pattern last sent to each sector of a read-write file
WriteBlock(l, p) ==
  /\ ret = "Ok"
  /\ fat_files' = write_block(config, fat_files, l, WBlock(p, l))
  /\ block' = WBlock(p, l)
  /\ ret' = "Ok"
  /\ op' = "write"
  /\ lba' = l
  /\ wpat' = p
  /\ LET s == l - start_clusters(config)
     IN written' = IF s >= 0 /\ Owned(fat_files, s) /\ fat_files[Owner(fat_files, s)].rw
                     THEN [written EXCEPT ![s + 1] = p]
                     ELSE written
  /\ UNCHANGED config

Next ==
  \/ \E l \in LbaInputs(config, fat_files) : ReadBlock(l)
  \/ \E l \in LbaInputs(config, fat_files) : \E p \in Patterns : WriteBlock(l, p)

Spec == Init /\ [][Next]_vars

\* many small read-only files
InitMany ==
  /\ config \in Configs
  /\ \E n \in (MaxManyFiles - 3)..MaxManyFiles :
       InitWith([i \in 1..n |-> MkFile(i, 3, FALSE)])

SpecMany == InitMany /\ [][Next]_vars

(* ---------------------------------------------------------------------- *)
(* Properties                                                              *)
(* ---------------------------------------------------------------------- *)
\* the first data sector of file i
FileLba(cfg, files, i) == start_clusters(cfg) + BlocksBefore(files, i)

\* C1: a read of data sector k of file i returns Ok with the file's bytes
\* [512k, 512k + m), m = min(512, len - 512k), followed by zeros; a read of a
\* data sector in no file's span returns an all-zero buffer.
ReadIdentity ==
  (op = "read" /\ lba >= start_clusters(config)) =>
    /\ ret = "Ok"
    /\ \A i \in 1..Len(fat_files) : \A k \in 0..(Blocks(fat_files[i]) - 1) :
         lba = FileLba(config, fat_files, i) + k =>
           LET m == Min(512, Len(fat_files[i].data) - 512 * k)
           IN \A j \in BlockIdx :
                block[j] = IF j < m THEN fat_files[i].data[512 * k + j + 1] ELSE 0
    /\ ~Owned(fat_files, lba - start_clusters(config)) => block = ZeroBlock

\* a read of the partial second sector of a file that follows a non-empty file
ReadIdentityWitness ==
  /\ op = "read"
  /\ ret = "Ok"
  /\ \E i \in 2..Len(fat_files) :
       /\ BlocksBefore(fat_files, i) > 0
       /\ Len(fat_files[i].data) = 515
       /\ lba = FileLba(config, fat_files, i) + 1
       /\ block[2] = fat_files[i].data[515]
       /\ block[3] = 0

\* every sector of file i has been sent a buffer
AllWritten(files, i) ==
  \A k \in 0..(Blocks(files[i]) - 1) : written[BlocksBefore(files, i) + k + 1] # 0

\* the buffer last sent to sector k of file i
SentTo(cfg, files, i, k) ==
  WBlock(written[BlocksBefore(files, i) + k + 1], FileLba(cfg, files, i) + k)

\* C2: once every sector of a read-write file of length L has been written with
\* the pieces of an L-byte value d, reading each sector yields the piece of d and
\* zeros past L; and right after one write_block(lba, b) on a sector of a
\* read-write file, read_block(lba) yields b on the first min(512, remaining) bytes.
WriteThenRead ==
  \A i \in 1..Len(fat_files) : fat_files[i].rw =>
    /\ AllWritten(fat_files, i) =>
         \A k \in 0..(Blocks(fat_files[i]) - 1) :
           LET r == read_block(config, fat_files, FileLba(config, fat_files, i) + k)
               L == Len(fat_files[i].data)
           IN /\ r.ok
              /\ \A j \in BlockIdx :
                   r.buf[j] = IF 512 * k + j < L
                                THEN SentTo(config, fat_files, i, k)[j] ELSE 0
    /\ \A k \in 0..(Blocks(fat_files[i]) - 1) :
         (op = "write" /\ lba = FileLba(config, fat_files, i) + k) =>
           LET r == read_block(config, fat_files, lba)
               m == Min(512, Len(fat_files[i].data) - 512 * k)
           IN r.ok /\ \A j \in 0..(m - 1) : r.buf[j] = block[j]

\* both sectors of a 515-byte read-write file written, then its last sector read
WriteThenReadWitness ==
  /\ op = "read"
  /\ \E i \in 1..Len(fat_files) :
       /\ fat_files[i].rw
       /\ Len(fat_files[i].data) = 515
       /\ AllWritten(fat_files, i)
       /\ lba = FileLba(config, fat_files, i) + 1
       /\ block[2] = WBlock(1, lba)[2]
       /\ block[3] = 0
       /\ fat_files[i].data[1] = WBlock(1, lba - 1)[0]

\* 32-byte slot n of a directory sector
Slot(b, n) == [k \in 0..31 |-> b[32 * n + k]]

SlotName(e) == [k \in 0..10 |-> e[k]]

SlotStartCluster(e) == e[26] + 256 * e[27]

SlotSize(e) == e[28] + 256 * e[29] + 65536 * e[30] + 16777216 * e[31]

FatEntry(b, i) == b[2 * i] + 256 * b[2 * i + 1]

\* C4: in the first FAT sector, the entry of cluster c+k of a file with N >= 1
\* blocks and start cluster c = 2 + blocks of the files before it is c+k+1 for
\* k < N-1 and 0xFFFF for k = N-1.
FileFatChain ==
  (op = "read" /\ lba = start_fat0(config) /\ ret = "Ok") =>
    \A i \in 1..Len(fat_files) : \A k \in 0..(Blocks(fat_files[i]) - 1) :
      LET c == 2 + BlocksBefore(fat_files, i)
      IN FatEntry(block, c + k) =
           IF k = Blocks(fat_files[i]) - 1 THEN 65535 ELSE c + k + 1

\* C5: in every state, sector i of FAT0 and sector i of FAT1 read the same.
FatCopiesEqual ==
  \A i \in 0..(sectors_per_fat(config) - 1) :
    read_block(config, fat_files, start_fat0(config) + i) =
      read_block(config, fat_files, start_fat1(config) + i)

\* after a data write, the second sector of FAT1 was read and equals FAT0's
FatCopiesEqualWitness ==
  /\ op = "read"
  /\ sectors_per_fat(config) = 3
  /\ lba = start_fat1(config) + 1
  /\ \E s \in 1..Len(written) : written[s] # 0
  /\ block = read_block(config, fat_files, start_fat0(config) + 1).buf
  /\ block[2] = 255

\* a write to lba is one the device rejects: boot, FAT, root directory, a sector
\* of a read-only file, a data sector of no file
Rejected(cfg, files, l) ==
  \/ l < start_clusters(cfg)
  \/ ~Owned(files, l - start_clusters(cfg))
  \/ ~files[Owner(files, l - start_clusters(cfg))].rw

\* C6: a rejected write returns Ok and leaves the data bytes of every file, the
\* file list and the Config unchanged; read_block is a function of the Config
\* and the file list alone, so every sector reads as before.
RejectedWritesNoOp ==
  [][(op' = "write" /\ Rejected(config, fat_files, lba')) =>
       /\ ret' = "Ok"
       /\ Len(fat_files') = Len(fat_files)
       /\ \A i \in 1..Len(fat_files) : fat_files'[i].data = fat_files[i].data
       /\ fat_files' = fat_files
       /\ config' = config]_vars

\* a write to the second sector of a read-only file that left its bytes alone
RejectedWriteWitness ==
  /\ op = "write"
  /\ ret = "Ok"
  /\ \E i \in 1..Len(fat_files) :
       /\ ~fat_files[i].rw
       /\ Blocks(fat_files[i]) = 2
       /\ lba = FileLba(config, fat_files, i) + 1
       /\ fat_files[i].data = InitData(i, Len(fat_files[i].data))
       /\ block[0] # fat_files[i].data[513]

\* C7: every read_block and write_block call with lba <= max_lba returns Ok.
AlwaysOk == ret = "Ok"

\* the part of file i that write_block(lba, b) on its sector k replaces
InChunk(f, k, j) == j > 512 * k /\ j <= 512 * k + Min(512, Len(f.data) - 512 * k)

\* C8: a write to sector k of read-write file i replaces exactly bytes
\* [512k, 512k + min(512, len - 512k)) of file i with the leading bytes of the
\* buffer and changes nothing else (other bytes, other files, lengths, names,
\* order, Config); a read changes no state.
WriteFrame ==
  [][/\ op' = "read" => (fat_files' = fat_files /\ config' = config)
     /\ op' = "write" =>
          /\ config' = config
          /\ Len(fat_files') = Len(fat_files)
          /\ \A n \in 1..Len(fat_files) :
               /\ Len(fat_files'[n].data) = Len(fat_files[n].data)
               /\ fat_files'[n].name = fat_files[n].name
               /\ fat_files'[n].attrs = fat_files[n].attrs
               /\ fat_files'[n].rw = fat_files[n].rw
          /\ \A i \in 1..Len(fat_files) : \A k \in 0..(Blocks(fat_files[i]) - 1) :
               (fat_files[i].rw /\ lba' = FileLba(config, fat_files, i) + k) =>
                 \A n \in 1..Len(fat_files) : \A j \in 1..Len(fat_files[n].data) :
                   fat_files'[n].data[j] =
                     IF n = i /\ InChunk(fat_files[i], k, j)
                       THEN block'[j - 512 * k - 1]
                       ELSE fat_files[n].data[j]]_vars

\* the partial second sector of a read-write file written, with a second
\* read-write file registered: only bytes 513..515 of the file changed
WriteFrameWitness ==
  /\ op = "write"
  /\ Len(fat_files) = 2
  /\ fat_files[1].rw /\ fat_files[2].rw
  /\ Len(fat_files[1].data) = 515
  /\ Blocks(fat_files[2]) = 2
  /\ lba = FileLba(config, fat_files, 1) + 1
  /\ fat_files[1].data[513] = block[0]
  /\ fat_files[1].data[515] = block[2]
  /\ fat_files[1].data[512] = InitData(1, 515)[512]
  /\ fat_files[2].data = InitData(2, Len(fat_files[2].data))

\* the FAT sector index of a FAT lba, FAT0 or FAT1
FatSection(cfg, l) == (l - start_fat0(cfg)) % sectors_per_fat(cfg)

InFat(cfg, l) == l >= start_fat0(cfg) /\ l < start_rootdir(cfg)

LaterFatSectors ==
  (op = "read" /\ ret = "Ok" /\ InFat(config, lba) /\ FatSection(config, lba) >= 1) =>
    \A i \in 0..255 :
      LET v == FatSection(config, lba) * 256 + i
      IN \/ FatEntry(block, i) = 65535
         \/ /\ v >= uf2_first_sector(fat_files)
            /\ v < uf2_last_sector(fat_files)
            /\ FatEntry(block, i) = v + 1

\* C11: the first four bytes of the first FAT sector returned by
\* read_block(start_fat0) are F0 FF FF FF (reserved entries 0 and 1), for every
\* registered file list.
ReservedFatEntries ==
  (op = "read" /\ ret = "Ok" /\ lba = start_fat0(config)) =>
    /\ block[0] = 240
    /\ block[1] = 255
    /\ block[2] = 255
    /\ block[3] = 255

====
